---- MODULE Spec2Model ----
(***************************************************************************)
(* codemerger (src/index.js): walk a folder, select files with an allow or *)
(* a deny pattern set, assemble one Markdown document of fenced blocks and *)
(* deliver it to the clipboard or to a file.                               *)
(*                                                                         *)
(* Strings are sequences of one-character strings.  A path is a sequence   *)
(* of names; a name is one character.                                      *)
(***************************************************************************)
EXTENDS Integers, Sequences, FiniteSets, TLC

VARIABLES
    fs,             \* the folder: relative path -> node
    opts,           \* the command line (folder, output, options)
    pc,             \* position of the run: start, walk, assemble, deliver, done, failed
    run,            \* number of the current invocation
    ig,             \* the deny pattern set (the ignore instance ig)
    allowIg,        \* the allow pattern set, or NoAllow (allowIg = null)
    ignoreLoaded,   \* loadIgnorePatterns was called in this run
    warned,         \* the allow/ignore warning was logged in this run
    stack,          \* the active walk() calls: directory and entries left
    listed,         \* directories listed by readdirSync in this run, in order
    mergedItems,    \* the FileEntry list
    idx,            \* index of the next entry to assemble
    output,         \* the document assembled so far
    reads,          \* result of each readFileSync of the assembly
    clip,           \* documents the clipboard accepted, over all runs
    files,          \* successful writeFileSync calls, over all runs
    fallbackLogged, \* the fallback message was logged in this run
    failCause,      \* what threw when pc = "failed"
    fs0,            \* the folder as it was when this run started
    nEnv,           \* deletions by other processes so far
    prevDoc,        \* the document of the previous completed run
    fcontent,       \* input of chooseFence (specification SpecFence)
    ffence          \* result of chooseFence (specification SpecFence)

vars == << fs, opts, pc, run, ig, allowIg, ignoreLoaded, warned, stack, listed,
           mergedItems, idx, output, reads, clip, files, fallbackLogged,
           failCause, fs0, nEnv, prevDoc, fcontent, ffence >>

(***************************************************************************)
(* Bounds                                                                  *)
(***************************************************************************)
\* longest content handed to chooseFence in SpecFence
MaxLen == 7
\* most nodes (files, directories, links) in the folder
MaxNodes == 3
\* most deletions by other processes in one behaviour
MaxEnv == 1
\* invocations in one behaviour
MaxRuns == 2
\* most arguments the JavaScript engine accepts in the spread call
\* Math.max(...a) of chooseFence; with more the call throws RangeError.  The
\* engine's limit is of the order of 10^5; it is scaled down here so that the
\* catch branch of chooseFence is reachable
MaxSpreadArgs == 2

(***************************************************************************)
(* Characters and strings                                                  *)
(***************************************************************************)
\* the backtick character (U+0060), written "bq"
BT == "bq"
NL == "\n"

RECURSIVE Flatten(_)
\* concatenation of a sequence of strings
Flatten(ss) == IF ss = << >> THEN << >> ELSE Head(ss) \o Flatten(Tail(ss))

Max(a, b) == IF a >= b THEN a ELSE b

\* c.repeat(n)
Repeat(c, n) == [i \in 1..n |-> c]

\* content.endsWith('\n')
EndsWithNL(s) == Len(s) > 0 /\ s[Len(s)] = NL

\* t occurs in s as a substring
IsSubstring(t, s) ==
    \E i \in 0..(Len(s) - Len(t)) : \A j \in 1..Len(t) : s[i + j] = t[j]

(***************************************************************************)
(* chooseFence                                                             *)
(***************************************************************************)
RECURSIVE BacktickRuns(_, _)
\* content.match(/bq+/g) mapped to lengths: the maximal runs, left to right;
\* open is the length of the run being read
BacktickRuns(s, open) ==
    IF s = << >> THEN (IF open > 0 THEN << open >> ELSE << >>)
    ELSE IF Head(s) = BT THEN BacktickRuns(Tail(s), open + 1)
    ELSE (IF open > 0 THEN << open >> ELSE << >>) \o BacktickRuns(Tail(s), 0)

RECURSIVE MaxOf(_)
\* Math.max of a non-empty list of lengths
MaxOf(ns) == IF Len(ns) = 1 THEN ns[1] ELSE Max(Head(ns), MaxOf(Tail(ns)))

\* the spread call Math.max(...lengths) throws
SpreadThrows(ns) == Len(ns) > MaxSpreadArgs

ChooseFence(content) ==
    LET matches == BacktickRuns(content, 0)
    IN  IF content = << >> THEN Repeat(BT, 3)
        ELSE IF matches = << >> THEN Repeat(BT, 3)
        ELSE IF SpreadThrows(matches) THEN Repeat(BT, 3)
        ELSE Repeat(BT, Max(3, MaxOf(matches) + 1))

(***************************************************************************)
(* The folder                                                              *)
(***************************************************************************)
Names == {"a", "B"}

\* relative paths, as sequences of names, to depth 2
Paths == {<< n >> : n \in Names} \cup {<< n, m >> : n \in Names, m \in Names}

Parent(p) == SubSeq(p, 1, Len(p) - 1)

\* kind "none": no such entry; "link": neither a regular file nor a directory
\* (Dirent.isFile() and Dirent.isDirectory() are both false)
NoNode == [kind |-> "none", text |-> FALSE, content |-> << >>]
DirNode == [kind |-> "dir", text |-> FALSE, content |-> << >>]
LinkNode == [kind |-> "link", text |-> FALSE, content |-> << >>]
\* text: the verdict of the external detectors on the file's bytes
FileNode(t, c) == [kind |-> "file", text |-> t, content |-> c]
\* a symbolic link; its content is the path it names, below the base folder
\* (the empty path is the base folder itself)
LinkTo(target) == [kind |-> "link", text |-> FALSE, content |-> target]

\* absolute path of the source folder: path.resolve(folder)
BaseFolder == << "w" >>

\* path.relative(baseFolder, absPath).split(path.sep): the names below the base
RelSegments(absPath) == SubSeq(absPath, Len(BaseFolder) + 1, Len(absPath))

RECURSIVE JoinSlash(_)
\* segs.join('/')
JoinSlash(segs) ==
    IF segs = << >> THEN << >>
    ELSE IF Len(segs) = 1 THEN << segs[1] >>
    ELSE << segs[1], "/" >> \o JoinSlash(Tail(segs))

\* relPath of walk(): forward slashes on every platform
RelPath(absPath) == JoinSlash(RelSegments(absPath))

\* the display path ./relPath
DisplayPath(absPath) == << ".", "/" >> \o RelPath(absPath)

\* names in directory d (a relative path, << >> for the base folder)
Children(f, d) ==
    {n \in Names : Len(d) < 2 /\ f[Append(d, n)].kind # "none"}

\* all orders in which readdirSync may return a set of names
Orders(S) ==
    {q \in [1..Cardinality(S) -> S] : \A i, j \in 1..Cardinality(S) : i # j => q[i] # q[j]}

(***************************************************************************)
(* Pattern sets: the npm package ignore (gitignore rules)                  *)
(***************************************************************************)
\* one rule: !seg (neg), /seg (rooted), seg/ (dirOnly); seg is a name or "*"
Pat(neg, rooted, dirOnly, seg) ==
    [neg |-> neg, rooted |-> rooted, dirOnly |-> dirOnly, seg |-> seg]

\* the names of a path string, split at "/"
SplitSlash(path) == SelectSeq(path, LAMBDA c : c # "/")

\* a path string names a directory when it ends in "/"
EndsWithSlash(path) == Len(path) > 0 /\ path[Len(path)] = "/"

\* the rule's regular expression matches the path string: an unrooted rule
\* matches the last name at any depth, a rooted one only at the top, and a
\* rule with a trailing slash only a path with a trailing slash
RuleMatches(r, path) ==
    LET segs == SplitSlash(path)
    IN  /\ r.dirOnly => EndsWithSlash(path)
        /\ r.rooted => Len(segs) = 1
        /\ r.seg = "*" \/ r.seg = segs[Len(segs)]

RECURSIVE RulesTest(_, _, _)
\* the rules in order, the last matching rule deciding; a negated rule
\* un-ignores
RulesTest(rules, path, ignored) ==
    IF rules = << >> THEN ignored
    ELSE RulesTest(Tail(rules), path,
                   IF RuleMatches(Head(rules), path) THEN ~Head(rules).neg ELSE ignored)

RECURSIVE Ignores(_, _)
\* ig.ignores(path): a path below an ignored directory is ignored, whatever
\* the rules say of the path itself
Ignores(rules, path) ==
    LET segs == SplitSlash(path)
    IN  IF Len(segs) <= 1 THEN RulesTest(rules, path, FALSE)
        ELSE \/ Ignores(rules, JoinSlash(SubSeq(segs, 1, Len(segs) - 1)) \o << "/" >>)
             \/ RulesTest(rules, path, FALSE)

\* isMatched(ig, relPath, isDir)
IsMatched(rules, relPath, isDir) ==
    IF isDir THEN Ignores(rules, relPath \o << "/" >>) ELSE Ignores(rules, relPath)

\* a line of an ignore file
PatLine(r) == [kind |-> "pattern", pat |-> r]
BlankLine == [kind |-> "blank", pat |-> Pat(FALSE, FALSE, FALSE, "*")]
CommentLine == [kind |-> "comment", pat |-> Pat(FALSE, FALSE, FALSE, "*")]

\* the -i option: not given, or a file that cannot be read, or its lines
NoIgnoreFile == [given |-> FALSE, readable |-> FALSE, lines |-> << >>]
UnreadableIgnoreFile == [given |-> TRUE, readable |-> FALSE, lines |-> << >>]
IgnoreFileOf(ls) == [given |-> TRUE, readable |-> TRUE, lines |-> ls]

RECURSIVE PatternLines(_)
\* the lines kept by loadIgnorePatterns: not blank, not starting with #
PatternLines(ls) ==
    IF ls = << >> THEN << >>
    ELSE (IF Head(ls).kind = "pattern" THEN << Head(ls).pat >> ELSE << >>)
         \o PatternLines(Tail(ls))

\* loadIgnorePatterns(ignoreFile): a read error gives the empty set
LoadIgnorePatterns(file) ==
    IF file.readable THEN PatternLines(file.lines) ELSE << >>

\* allowIg = null
NoAllow == [present |-> FALSE, rules |-> << >>]

\* lines 270-297 of the main action with the ignore file always loaded
PatternSetupAlwaysLoad(o) ==
    LET loaded == IF o.ignoreFile.given THEN LoadIgnorePatterns(o.ignoreFile) ELSE << >>
    IN  [ig |-> loaded \o o.inlineIgnore,
         allowIg |-> IF Len(o.allow) > 0 THEN [present |-> TRUE, rules |-> o.allow]
                     ELSE NoAllow,
         loaded |-> o.ignoreFile.given,
         warned |-> Len(o.allow) > 0 /\ (o.ignoreFile.given \/ Len(o.inlineIgnore) > 0)]

\* lines 270-297 of the main action: the two pattern sets, whether the
\* ignore file was loaded, whether the warning was logged
PatternSetup(o) ==
    IF Len(o.allow) > 0
    THEN [ig |-> << >>,
          allowIg |-> [present |-> TRUE, rules |-> o.allow],
          loaded |-> FALSE,
          warned |-> o.ignoreFile.given \/ Len(o.inlineIgnore) > 0]
    ELSE [ig |-> (IF o.ignoreFile.given THEN LoadIgnorePatterns(o.ignoreFile) ELSE << >>)
                 \o o.inlineIgnore,
          allowIg |-> NoAllow,
          loaded |-> o.ignoreFile.given,
          warned |-> FALSE]

\* useClipboard = options.clipboard || !output
UseClipboard(o) == o.clipboard \/ o.output.kind = "none"

\* resultPath: the resolved output argument, or the bare name clipboard
ResultPath(o) ==
    IF o.output.kind = "none" THEN [kind |-> "cwd", path |-> << "clipboard" >>]
    ELSE o.output

(***************************************************************************)
(* The walk                                                                *)
(***************************************************************************)
\* isTextFile(absPath): false on a read error
IsTextFile(f, absPath) ==
    LET node == f[RelSegments(absPath)]
    IN  node.kind = "file" /\ node.text

\* the file branch of walk() with the deny test left out
IncludeFileNoDeny(f, rules, allow, absPath) ==
    IF allow.present
    THEN IsMatched(allow.rules, RelPath(absPath), FALSE) /\ IsTextFile(f, absPath)
    ELSE IsTextFile(f, absPath)

\* the file branch of walk(): whether the entry is pushed to mergedItems
IncludeFile(f, rules, allow, absPath) ==
    IF allow.present
    THEN IsMatched(allow.rules, RelPath(absPath), FALSE) /\ IsTextFile(f, absPath)
    ELSE ~IsMatched(rules, RelPath(absPath), FALSE) /\ IsTextFile(f, absPath)

\* walk(absPath) called only for a directory the active pattern set matches
DescendsIfMatched(rules, allow, absPath) ==
    IF allow.present THEN IsMatched(allow.rules, RelPath(absPath), TRUE)
    ELSE IsMatched(rules, RelPath(absPath), TRUE)

\* walk(absPath) left out in deny mode for a directory the deny set matches
DescendsUnlessDenied(rules, allow, absPath) ==
    IF allow.present THEN TRUE ELSE ~IsMatched(rules, RelPath(absPath), TRUE)

\* the directory branch of walk(): walk(absPath) is called for every
\* directory entry, in both modes, without consulting a pattern set
Descends(rules, allow, absPath) == TRUE

\* the entry pushed: [displayPath, absPath]
Item(absPath) == [display |-> DisplayPath(absPath), abs |-> absPath]

\* a listing that reports a symbolic link as the kind of what it names
ReadDirFollowingLinks(f, absDir, q) ==
    [i \in 1..Len(q) |->
        LET node == f[Append(RelSegments(absDir), q[i])]
        IN  [name |-> q[i],
             kind |-> IF node.kind # "link" THEN node.kind
                      ELSE IF node.content = << >> THEN "dir"
                      ELSE IF node.content \in Paths /\ f[node.content].kind \in {"dir", "file"}
                           THEN f[node.content].kind
                      ELSE "link"]]

\* readdirSync(dir, {withFileTypes: true}) returning the names in order q
ReadDir(f, absDir, q) ==
    [i \in 1..Len(q) |->
        [name |-> q[i], kind |-> f[Append(RelSegments(absDir), q[i])].kind]]

Frame(absDir, entries) == [dir |-> absDir, entries |-> entries]

RECURSIVE Unwind(_)
\* return from every walk() call whose loop has ended
Unwind(st) ==
    IF st = << >> THEN st
    ELSE IF st[Len(st)].entries = << >> THEN Unwind(SubSeq(st, 1, Len(st) - 1))
    ELSE st

(***************************************************************************)
(* The sort: a[0].localeCompare(b[0])                                      *)
(***************************************************************************)
\* primary collation weight of a character: punctuation before letters,
\* letters by alphabet, case ignored
Primary(c) ==
    CASE c = "." -> 1
      [] c = "/" -> 2
      [] c \in {"a", "A"} -> 3
      [] c \in {"b", "B"} -> 4
      [] OTHER -> 5

\* tertiary collation weight: lower case before upper case
Tertiary(c) == IF c \in {"A", "B"} THEN 1 ELSE 0

RECURSIVE CompareSeq(_, _)
\* -1, 0 or 1: two sequences of numbers, first difference deciding, a proper
\* prefix first
CompareSeq(x, y) ==
    IF x = << >> /\ y = << >> THEN 0
    ELSE IF x = << >> THEN -1
    ELSE IF y = << >> THEN 1
    ELSE IF Head(x) < Head(y) THEN -1
    ELSE IF Head(x) > Head(y) THEN 1
    ELSE CompareSeq(Tail(x), Tail(y))

\* s.localeCompare(t): the primary weights of the whole strings first, the
\* case only between strings whose primary weights are equal
LocaleCompare(s, t) ==
    LET p == CompareSeq([i \in 1..Len(s) |-> Primary(s[i])],
                        [i \in 1..Len(t) |-> Primary(t[i])])
    IN  IF p # 0 THEN p
        ELSE CompareSeq([i \in 1..Len(s) |-> Tertiary(s[i])],
                        [i \in 1..Len(t) |-> Tertiary(t[i])])

RECURSIVE InsertItem(_, _)
\* x placed after every item that does not compare greater (the sort is stable)
InsertItem(x, sorted) ==
    IF sorted = << >> THEN << x >>
    ELSE IF LocaleCompare(Head(sorted).display, x.display) <= 0
         THEN << Head(sorted) >> \o InsertItem(x, Tail(sorted))
         ELSE << x >> \o sorted

RECURSIVE SortFrom(_, _)
SortFrom(items, sorted) ==
    IF items = << >> THEN sorted
    ELSE SortFrom(Tail(items), InsertItem(Head(items), sorted))

\* the list left as the walk pushed it
SortItemsNone(items) == items

\* mergedItems.sort((a, b) => a[0].localeCompare(b[0]))
SortItems(items) == SortFrom(items, << >>)

\* after a step of the walk: where the run stands and the FileEntry list;
\* when the outermost walk() has returned the list is sorted and the assembly
\* loop starts (it has nothing to do for an empty list)
PcAfterWalk(st, items) ==
    IF st # << >> THEN "walk"
    ELSE IF items = << >> THEN "deliver"
    ELSE "assemble"

ItemsAfterWalk(st, items) == IF st = << >> THEN SortItems(items) ELSE items

(***************************************************************************)
(* The assembly                                                            *)
(***************************************************************************)
\* 'Error reading file: '
ErrPrefix ==
    << "E", "r", "r", "o", "r", " ", "r", "e", "a", "d", "i", "n", "g", " ",
       "f", "i", "l", "e", ":", " " >>

\* err.message of a failed readFileSync(absPath)
ErrMessage(absPath) == << "E", "N", "O", "E", "N", "T", " ", "/" >> \o JoinSlash(absPath)

\* readFileSync(absPath, 'utf8') succeeds
CanRead(f, absPath) == f[RelSegments(absPath)].kind = "file"

\* the content with a line feed always added
BodyAlwaysNL(content) == content \o << NL >>

\* content.endsWith('\n') ? content : content + '\n'
Body(content) == IF EndsWithNL(content) THEN content ELSE content \o << NL >>

\* what the try block adds for a file that was read
ContentBlock(content) ==
    LET fence == ChooseFence(content)
    IN  fence \o << NL >> \o Body(content) \o fence \o << NL, NL >>

\* what the read failure adds: nothing at all
ErrorBlockNone(absPath) == << >>

\* what the catch block adds for a file that could not be read
ErrorBlock(absPath) ==
    Repeat(BT, 3) \o << NL >> \o ErrPrefix \o ErrMessage(absPath) \o << NL >>
    \o Repeat(BT, 3) \o << NL, NL >>

\* one turn of the assembly loop
EntryText(f, item) ==
    item.display \o << ":", NL >>
    \o (IF CanRead(f, item.abs) THEN ContentBlock(f[RelSegments(item.abs)].content)
        ELSE ErrorBlock(item.abs))

\* what the read of one turn gave
ReadResult(f, item) ==
    IF CanRead(f, item.abs)
    THEN [ok |-> TRUE, content |-> f[RelSegments(item.abs)].content]
    ELSE [ok |-> FALSE, content |-> << >>]

(***************************************************************************)
(* The sink                                                                *)
(***************************************************************************)
\* on a clipboard error the catch block rethrows
ClipboardFallbackNone == FALSE

\* lines 201-205: a clipboard error is caught and the document is written to
\* resultFile instead
ClipboardFallback == TRUE

\* writeFileSync(target) can succeed: a path in the folder needs its
\* directory and must not be a directory or a link itself
CanWrite(f, target) ==
    IF target.kind # "tree" THEN TRUE
    ELSE IF f[target.path].kind \notin {"none", "file"} THEN FALSE
    ELSE IF Len(target.path) = 1 THEN TRUE
    ELSE f[Parent(target.path)].kind = "dir"

\* a write that leaves the folder as it was
FsAfterWriteNone(f, target, data, t) == f

\* the folder after writeFileSync(target, data); t is the verdict the
\* detectors will give on the new file
FsAfterWrite(f, target, data, t) ==
    IF target.kind = "tree" THEN [f EXCEPT ![target.path] = FileNode(t, data)] ELSE f

(***************************************************************************)
(* Inputs                                                                  *)
(***************************************************************************)
Shapes ==
    {S \in SUBSET Paths :
        /\ Cardinality(S) <= MaxNodes
        /\ \A p \in S : Len(p) > 1 => Parent(p) \in S}

LeafNodes(C) ==
    {DirNode, LinkNode, FileNode(FALSE, << >>)} \cup {FileNode(TRUE, c) : c \in C}

HasChild(S, p) == \E q \in S : Len(q) > 1 /\ Parent(q) = p

FoldersOf(S, C) ==
    {[p \in Paths |-> IF p \in S THEN g[p] ELSE NoNode] :
        g \in {h \in [S -> LeafNodes(C)] : \A p \in S : HasChild(S, p) => h[p] = DirNode}}

\* the folders of at most MaxNodes entries whose text files hold a content of C
Folders(C) == UNION {FoldersOf(S, C) : S \in Shapes}

PA == Pat(FALSE, FALSE, FALSE, "a")
PBdir == Pat(FALSE, FALSE, TRUE, "B")
PStar == Pat(FALSE, FALSE, FALSE, "*")
PNotA == Pat(TRUE, FALSE, FALSE, "a")
PatternUniverse == {PA, PBdir, PStar, PNotA}

UpTo1(U) == {<< >>} \cup {<< p >> : p \in U}
OneOrTwo(U) == {<< p >> : p \in U} \cup {<< p, q >> : p \in U, q \in U}

OutNone == [kind |-> "none", path |-> << >>]
OutExt == [kind |-> "ext", path |-> << "out" >>]
OutTree(p) == [kind |-> "tree", path |-> p]

Options(outs, clips, allows, ignoreFiles, inlines) ==
    [output : outs, clipboard : clips, allow : allows,
     ignoreFile : ignoreFiles, inlineIgnore : inlines]

\* deny mode with up to two rules, one from the file and one inline; allow
\* mode with one or two rules, alone or beside deny inputs
DenyOptions ==
    Options({OutExt}, {FALSE}, {<< >>},
            {NoIgnoreFile, UnreadableIgnoreFile}
              \cup {IgnoreFileOf(<< CommentLine, PatLine(p), BlankLine >>) : p \in PatternUniverse},
            UpTo1(PatternUniverse))

AllowOptions ==
    Options({OutExt}, {FALSE}, OneOrTwo(PatternUniverse), {NoIgnoreFile}, {<< >>})
    \cup Options({OutNone}, {FALSE}, OneOrTwo(PatternUniverse),
                 {IgnoreFileOf(<< PatLine(PA) >>)}, {<< >>})
    \cup Options({OutExt}, {FALSE}, OneOrTwo(PatternUniverse),
                 {NoIgnoreFile, UnreadableIgnoreFile}, {<< PStar >>})

NoPrev == [has |-> FALSE, doc |-> << >>, fs0 |-> << >>]

\* the state before an invocation; p is the position, c the input of
\* chooseFence
InitVars(f, o, p, c) ==
    /\ fs = f
    /\ opts = o
    /\ pc = p
    /\ run = 1
    /\ ig = << >>
    /\ allowIg = NoAllow
    /\ ignoreLoaded = FALSE
    /\ warned = FALSE
    /\ stack = << >>
    /\ listed = << >>
    /\ mergedItems = << >>
    /\ idx = 1
    /\ output = << >>
    /\ reads = << >>
    /\ clip = << >>
    /\ files = << >>
    /\ fallbackLogged = FALSE
    /\ failCause = "none"
    /\ fs0 = f
    /\ nEnv = 0
    /\ prevDoc = NoPrev
    /\ fcontent = c
    /\ ffence = << >>

\* pattern-rich inputs: every folder shape, one content, the pattern options
Init ==
    \E f \in Folders({<< "x" >>}) : \E o \in DenyOptions \cup AllowOptions :
        InitVars(f, o, "start", << >>)

\* contents of the text files of InitDoc: empty, without and with a final
\* line feed, four backticks alone, two runs of backticks
DocContents ==
    {<< >>, << "x" >>, << "x", NL >>, << BT, BT, BT, BT >>, << BT, "x", BT, BT, BT >>}

\* every destination, without patterns or with one allow rule
DocOptions ==
    Options({OutNone, OutExt, OutTree(<< "B" >>)}, BOOLEAN, {<< >>, << PA >>},
            {NoIgnoreFile}, {<< >>})

\* content-rich inputs: every folder shape, the contents of DocContents, every
\* destination
InitDoc ==
    \E f \in Folders(DocContents) : \E o \in DocOptions : InitVars(f, o, "start", << >>)

\* what a symbolic link may name: the base folder, an entry of it, an entry
\* of a directory of it
LinkTargets == {<< >>, << "a" >>, << "B" >>, << "a", "a" >>}

LinkLeafNodes == {DirNode, FileNode(TRUE, << "x" >>)} \cup {LinkTo(t) : t \in LinkTargets}

\* the folders of at most MaxNodes entries, symbolic links among them
LinkFolders ==
    UNION {{[p \in Paths |-> IF p \in S THEN g[p] ELSE NoNode] :
              g \in {h \in [S -> LinkLeafNodes] : \A p \in S : HasChild(S, p) => h[p] = DirNode}} :
           S \in Shapes}

LinkOptions ==
    Options({OutExt}, {FALSE}, {<< >>, << PStar >>}, {NoIgnoreFile}, {<< >>, << PBdir >>})

\* link-rich inputs: every folder shape with links to directories, to files,
\* to the base folder, to themselves and to nothing
InitLinks ==
    \E f \in LinkFolders : \E o \in LinkOptions : InitVars(f, o, "start", << >>)

FenceAlphabet == {BT, "x", NL}

\* the strings over FenceAlphabet of length at most n
Strings(n) == UNION {[1..k -> FenceAlphabet] : k \in 0..n}

EmptyFolder == [p \in Paths |-> NoNode]

\* inputs of chooseFence
InitFence ==
    \E c \in Strings(MaxLen) :
        InitVars(EmptyFolder, [output |-> OutNone, clipboard |-> FALSE, allow |-> << >>,
                               ignoreFile |-> NoIgnoreFile, inlineIgnore |-> << >>],
                 "fence", c)

(***************************************************************************)
(* The run                                                                 *)
(***************************************************************************)
\* a run that goes on after a directory could not be listed
ListingErrorSkipped == FALSE

\* readdirSync(dir) is called outside any try block: its exception leaves
\* walk(), mergeCodes() and the action
ListingErrorFatal == TRUE

Fail(cause) ==
    /\ pc' = "failed"
    /\ failCause' = cause

\* program.action up to the first readdirSync of walk(baseFolder)
Start ==
    /\ pc = "start"
    /\ LET setup == PatternSetup(opts)
       IN  /\ ig' = setup.ig
           /\ allowIg' = setup.allowIg
           /\ ignoreLoaded' = setup.loaded
           /\ warned' = setup.warned
    /\ \/ \* readdirSync(baseFolder) throws
          IF ListingErrorFatal
          THEN /\ Fail("readdir")
               /\ UNCHANGED << stack, listed, mergedItems >>
          ELSE /\ pc' = PcAfterWalk(<< >>, << >>)
               /\ UNCHANGED << stack, listed, mergedItems, failCause >>
       \/ \E q \in Orders(Children(fs, << >>)) :
            LET st == Unwind(<< Frame(BaseFolder, ReadDir(fs, BaseFolder, q)) >>)
            IN  /\ stack' = st
                /\ listed' = << BaseFolder >>
                /\ mergedItems' = ItemsAfterWalk(st, << >>)
                /\ pc' = PcAfterWalk(st, << >>)
                /\ UNCHANGED failCause
    /\ UNCHANGED << fs, opts, run, idx, output, reads, clip, files, fallbackLogged,
                    fs0, nEnv, prevDoc, fcontent, ffence >>

\* one turn of the loop of the innermost walk() call
WalkStep ==
    /\ pc = "walk"
    /\ LET top == stack[Len(stack)]
           e == Head(top.entries)
           absPath == Append(top.dir, e.name)
           rest == [stack EXCEPT ![Len(stack)] = Frame(top.dir, Tail(top.entries))]
       IN  \/ \* a directory: walk(absPath), whose readdirSync throws
              /\ e.kind = "dir"
              /\ Descends(ig, allowIg, absPath)
              /\ IF ListingErrorFatal
                 THEN /\ Fail("readdir")
                      /\ UNCHANGED << stack, listed, mergedItems >>
                 ELSE LET st == Unwind(rest)
                      IN  /\ stack' = st
                          /\ mergedItems' = ItemsAfterWalk(st, mergedItems)
                          /\ pc' = PcAfterWalk(st, mergedItems)
                          /\ UNCHANGED << listed, failCause >>
           \/ \* a directory: walk(absPath)
              /\ e.kind = "dir"
              /\ Descends(ig, allowIg, absPath)
              /\ \E q \in Orders(Children(fs, RelSegments(absPath))) :
                    LET st == Unwind(Append(rest, Frame(absPath, ReadDir(fs, absPath, q))))
                    IN  /\ stack' = st
                        /\ listed' = Append(listed, absPath)
                        /\ mergedItems' = ItemsAfterWalk(st, mergedItems)
                        /\ pc' = PcAfterWalk(st, mergedItems)
                        /\ UNCHANGED failCause
           \/ \* a regular file
              /\ e.kind = "file"
              /\ LET st == Unwind(rest)
                     items == IF IncludeFile(fs, ig, allowIg, absPath)
                              THEN Append(mergedItems, Item(absPath))
                              ELSE mergedItems
                 IN  /\ stack' = st
                     /\ mergedItems' = ItemsAfterWalk(st, items)
                     /\ pc' = PcAfterWalk(st, items)
                     /\ UNCHANGED << listed, failCause >>
           \/ \* neither, or a directory not entered: the entry is passed over
              /\ IF e.kind = "dir" THEN ~Descends(ig, allowIg, absPath)
                 ELSE e.kind # "file"
              /\ LET st == Unwind(rest)
                 IN  /\ stack' = st
                     /\ mergedItems' = ItemsAfterWalk(st, mergedItems)
                     /\ pc' = PcAfterWalk(st, mergedItems)
                     /\ UNCHANGED << listed, failCause >>
    /\ UNCHANGED << fs, opts, run, ig, allowIg, ignoreLoaded, warned, idx, output,
                    reads, clip, files, fallbackLogged, fs0, nEnv, prevDoc,
                    fcontent, ffence >>

\* one turn of the assembly loop
Assemble ==
    /\ pc = "assemble"
    /\ LET item == mergedItems[idx]
       IN  /\ output' = output \o EntryText(fs, item)
           /\ reads' = Append(reads, ReadResult(fs, item))
    /\ idx' = idx + 1
    /\ pc' = IF idx = Len(mergedItems) THEN "deliver" ELSE "assemble"
    /\ UNCHANGED << fs, opts, run, ig, allowIg, ignoreLoaded, warned, stack, listed,
                    mergedItems, clip, files, fallbackLogged, failCause, fs0, nEnv,
                    prevDoc, fcontent, ffence >>

\* lines 196-209: the clipboard, or the file
Deliver ==
    /\ pc = "deliver"
    /\ LET target == ResultPath(opts)
       IN  \/ \* clipboard.writeSync(output) succeeds
              /\ UseClipboard(opts)
              /\ clip' = Append(clip, [data |-> output, run |-> run])
              /\ pc' = "done"
              /\ UNCHANGED << fs, files, fallbackLogged, failCause >>
           \/ \* clipboard.writeSync(output) throws and nothing catches it
              /\ UseClipboard(opts)
              /\ ~ClipboardFallback
              /\ Fail("clipboard")
              /\ UNCHANGED << fs, files, fallbackLogged, clip >>
           \/ \* writeFileSync(resultFile, output) succeeds, after a clipboard
              \* error or as the destination
              /\ UseClipboard(opts) => ClipboardFallback
              /\ CanWrite(fs, target)
              /\ \E t \in BOOLEAN : fs' = FsAfterWrite(fs, target, output, t)
              /\ files' = Append(files, [path |-> target, data |-> output, run |-> run])
              /\ fallbackLogged' = UseClipboard(opts)
              /\ pc' = "done"
              /\ UNCHANGED << clip, failCause >>
           \/ \* writeFileSync(resultFile, output) throws
              /\ UseClipboard(opts) => ClipboardFallback
              /\ Fail("write")
              /\ UNCHANGED << fs, files, fallbackLogged, clip >>
    /\ UNCHANGED << opts, run, ig, allowIg, ignoreLoaded, warned, stack, listed,
                    mergedItems, idx, output, reads, fs0, nEnv, prevDoc,
                    fcontent, ffence >>

\* the tool is invoked again with the same command line
Rerun ==
    /\ pc \in {"done", "failed"}
    /\ run < MaxRuns
    /\ run' = run + 1
    /\ pc' = "start"
    /\ prevDoc' = IF pc = "done" THEN [has |-> TRUE, doc |-> output, fs0 |-> fs0]
                  ELSE NoPrev
    /\ fs0' = fs
    /\ ig' = << >>
    /\ allowIg' = NoAllow
    /\ ignoreLoaded' = FALSE
    /\ warned' = FALSE
    /\ stack' = << >>
    /\ listed' = << >>
    /\ mergedItems' = << >>
    /\ idx' = 1
    /\ output' = << >>
    /\ reads' = << >>
    /\ fallbackLogged' = FALSE
    /\ failCause' = "none"
    /\ UNCHANGED << fs, opts, clip, files, nEnv, fcontent, ffence >>

\* another process deletes a file while the tool walks or assembles
EnvUnlink ==
    /\ pc \in {"walk", "assemble"}
    /\ nEnv < MaxEnv
    /\ \E p \in Paths :
        /\ fs[p].kind = "file"
        /\ fs' = [fs EXCEPT ![p] = NoNode]
    /\ nEnv' = nEnv + 1
    /\ UNCHANGED << opts, pc, run, ig, allowIg, ignoreLoaded, warned, stack, listed,
                    mergedItems, idx, output, reads, clip, files, fallbackLogged,
                    failCause, fs0, prevDoc, fcontent, ffence >>

\* chooseFence(content)
FenceStep ==
    /\ pc = "fence"
    /\ ffence' = ChooseFence(fcontent)
    /\ pc' = "fenced"
    /\ UNCHANGED << fs, opts, run, ig, allowIg, ignoreLoaded, warned, stack, listed,
                    mergedItems, idx, output, reads, clip, files, fallbackLogged,
                    failCause, fs0, nEnv, prevDoc, fcontent >>

Next == Start \/ WalkStep \/ Assemble \/ Deliver \/ Rerun \/ EnvUnlink

Spec == Init /\ [][Next]_vars

SpecDoc == InitDoc /\ [][Next]_vars

\* the action and the loop of walk() are sequential code: a step that can
\* be taken is taken
SpecLinks == InitLinks /\ [][Next]_vars /\ WF_vars(Start) /\ WF_vars(WalkStep)

NextFence == FenceStep

SpecFence == InitFence /\ [][NextFence]_vars

(***************************************************************************)
(* Properties                                                              *)
(***************************************************************************)
\* length of the longest run of backticks in s, 0 when there is none
LongestRun(s) ==
    CHOOSE n \in 0..Len(s) :
        /\ IsSubstring(Repeat(BT, n), s)
        /\ ~IsSubstring(Repeat(BT, n + 1), s)

\* C4: for every content whose longest run of backticks has length N,
\* chooseFence returns exactly max(3, N+1) backticks, and the fence does not
\* occur in the content.
C4_FenceExactAndAbsent ==
    pc = "fenced" =>
        /\ ffence = Repeat(BT, Max(3, LongestRun(fcontent) + 1))
        /\ ~IsSubstring(ffence, fcontent)

\* the relative paths of the FileEntry list
SelectedPaths == {RelSegments(mergedItems[i].abs) : i \in 1..Len(mergedItems)}

\* every FileEntry is recorded once
NoDuplicates == Cardinality(SelectedPaths) = Len(mergedItems)

\* the walk of this run has returned and the folder is as the run found it
WalkedUnchanged == pc \in {"assemble", "deliver", "done"} /\ fs = fs0

\* the text files under the base folder
TextFiles(f) == {p \in Paths : f[p].kind = "file" /\ f[p].text}

\* the proper ancestors of a path
Ancestors(p) == {SubSeq(p, 1, k) : k \in 1..(Len(p) - 1)}

\* the file lies beneath a directory that the pattern set matches
BeneathMatchedDir(rules, p) ==
    \E d \in Ancestors(p) : IsMatched(rules, JoinSlash(d), TRUE)

\* C1: in deny mode the FileEntry set is the text files under the base
\* folder, minus the files whose relative path matches the deny set, minus the
\* files beneath a directory whose relative path with a trailing slash matches
\* the deny set (with "matches" read as the answer of ig.ignores, and also as
\* the verdict of the rules on the path alone).
C1_DenySelection ==
    (WalkedUnchanged /\ ~allowIg.present) =>
        /\ SelectedPaths =
              {p \in TextFiles(fs0) :
                  /\ ~IsMatched(ig, JoinSlash(p), FALSE)
                  /\ ~BeneathMatchedDir(ig, p)}
        /\ SelectedPaths =
              {p \in TextFiles(fs0) :
                  /\ ~RulesTest(ig, JoinSlash(p), FALSE)
                  /\ \A d \in Ancestors(p) : ~RulesTest(ig, JoinSlash(d) \o << "/" >>, FALSE)}
        /\ NoDuplicates

\* a deny-mode walk that kept one file, dropped a text file whose own path
\* matches, and dropped a text file only because its directory matches
C1_Witness ==
    /\ WalkedUnchanged
    /\ ~allowIg.present
    /\ mergedItems # << >>
    /\ \E p \in TextFiles(fs0) :
          /\ BeneathMatchedDir(ig, p)
          /\ ~RulesTest(ig, JoinSlash(p), FALSE)
          /\ p \notin SelectedPaths

AllowWithDenyInputs ==
    /\ Len(opts.allow) > 0
    /\ opts.ignoreFile.given \/ Len(opts.inlineIgnore) > 0

\* the rules the deny inputs would give in a run without an allow list
DenyInputRules ==
    (IF opts.ignoreFile.given THEN LoadIgnorePatterns(opts.ignoreFile) ELSE << >>)
    \o opts.inlineIgnore

\* C3: with an allow list beside an ignore file or inline patterns the run
\* goes on, the ignore file is never loaded, the deny set stays empty, the
\* warning is logged, and the FileEntry set is the one of the allow list alone.
C3_AllowSupersedesDeny ==
    (AllowWithDenyInputs /\ pc # "start") =>
        /\ ~ignoreLoaded
        /\ ig = << >>
        /\ warned
        /\ allowIg = [present |-> TRUE, rules |-> opts.allow]
        /\ failCause \in {"none", "readdir", "write"}
        /\ WalkedUnchanged =>
              SelectedPaths =
                 {p \in TextFiles(fs0) : Ignores(opts.allow, JoinSlash(p))}

\* such a run kept a file that the deny inputs match
C3_Witness ==
    /\ AllowWithDenyInputs
    /\ WalkedUnchanged
    /\ \E p \in SelectedPaths : Ignores(DenyInputRules, JoinSlash(p))

\* the run has read every entry it has assembled so far
Assembling == pc \in {"assemble", "deliver", "done"} \/ (pc = "failed" /\ failCause = "write")

\* the block of a file that was read: path, colon, line feed; fence, line
\* feed; the content, with a line feed added only when it does not end in
\* one; fence, line feed; an empty line
FileBlock(display, content) ==
    LET fence == ChooseFence(content)
        last == IF content # << >> /\ content[Len(content)] = NL THEN << >> ELSE << NL >>
    IN  Flatten(<< display, << ":" >>, << NL >>, fence, << NL >>, content, last,
                   fence, << NL >>, << NL >> >>)

\* the text of entry i as the claims describe it
BlockOf(i) ==
    IF reads[i].ok THEN FileBlock(mergedItems[i].display, reads[i].content)
    ELSE mergedItems[i].display \o << ":", NL >> \o ErrorBlock(mergedItems[i].abs)

\* the display path starts with ./ and is the names below the base folder
\* separated by forward slashes
WellFormedDisplay(item) ==
    LET d == item.display
    IN  /\ Len(d) >= 3
        /\ d[1] = "." /\ d[2] = "/"
        /\ "\\" \notin {d[k] : k \in 1..Len(d)}
        /\ SplitSlash(SubSeq(d, 3, Len(d))) = RelSegments(item.abs)
        /\ Len(d) = 2 * Len(RelSegments(item.abs)) + 1

\* C5: the document is the concatenation, with nothing in between, of one
\* block per entry; the block of an entry that was read is its display path,
\* a colon, a line feed, the fence, a line feed, the content with one line
\* feed added only if it does not end in one, the fence, a line feed and an
\* empty line; every display path starts with ./ and uses forward slashes.
C5_DocumentLayout ==
    Assembling =>
        /\ Len(reads) = idx - 1
        /\ output = Flatten([i \in 1..Len(reads) |-> BlockOf(i)])
        /\ \A i \in 1..Len(mergedItems) : WellFormedDisplay(mergedItems[i])

\* a finished document of two files that were read, one ending in a line
\* feed and one not, one of them in a directory
C5_Witness ==
    /\ pc = "done"
    /\ Len(reads) = 2
    /\ reads[1].ok /\ reads[2].ok
    /\ \E i, j \in 1..2 : EndsWithNL(reads[i].content) /\ ~EndsWithNL(reads[j].content)
    /\ \E i \in 1..2 : Len(mergedItems[i].abs) = 3

\* UTF-16 code unit of a character
CodeUnit(c) ==
    CASE c = "." -> 46
      [] c = "/" -> 47
      [] c = "A" -> 65
      [] c = "B" -> 66
      [] c = "a" -> 97
      [] c = "b" -> 98
      [] OTHER -> 0

\* s before t in the lexicographic order of the code units
CodeUnitLess(s, t) ==
    CompareSeq([i \in 1..Len(s) |-> CodeUnit(s[i])],
               [i \in 1..Len(t) |-> CodeUnit(t[i])]) < 0

\* the document holds the blocks of the entries in the order of the list
BlocksInListOrder ==
    /\ Len(reads) = Len(mergedItems)
    /\ output = Flatten([i \in 1..Len(mergedItems) |-> BlockOf(i)])

\* C6 as stated: whatever order the listing returns, the blocks appear in
\* strictly lexicographic order of their display paths, none twice.
C6_CodeUnitOrder ==
    pc \in {"deliver", "done"} =>
        /\ BlocksInListOrder
        /\ \A i, j \in 1..Len(mergedItems) :
              i < j => CodeUnitLess(mergedItems[i].display, mergedItems[j].display)

\* C6 as amended: whatever order the listing returns, the blocks appear in
\* ascending order of their display paths under localeCompare (the locale's
\* collation, in which case decides only between paths that are otherwise
\* equal, so ./a comes before ./B; not the order of the code units), and no
\* display path appears twice.
C6_LocaleOrder ==
    pc \in {"deliver", "done"} =>
        /\ BlocksInListOrder
        /\ \A i, j \in 1..Len(mergedItems) :
              i < j => /\ LocaleCompare(mergedItems[i].display, mergedItems[j].display) <= 0
                       /\ mergedItems[i].display # mergedItems[j].display

\* a delivered document of two blocks whose order under localeCompare is not
\* the order of the code units
C6_Witness ==
    /\ pc = "done"
    /\ Len(mergedItems) = 2
    /\ BlocksInListOrder
    /\ CodeUnitLess(mergedItems[2].display, mergedItems[1].display)

\* the sink writes of this run
FilesThisRun == SelectSeq(files, LAMBDA w : w.run = run)
ClipThisRun == SelectSeq(clip, LAMBDA w : w.run = run)

\* the fenced block that stands for a file that could not be read: a fence
\* line, a line that holds a message, a fence line, an empty line
IsErrorBlock(t) ==
    \E msg \in {SubSeq(t, 5, k) : k \in 5..Len(t)} :
        /\ msg # << >>
        /\ NL \notin {msg[k] : k \in 1..Len(msg)}
        /\ t = Repeat(BT, 3) \o << NL >> \o msg \o << NL >> \o Repeat(BT, 3) \o << NL, NL >>

\* C7: a read that fails during the assembly puts the path header and a
\* fenced block holding an error message in the place of the entry; the
\* blocks of all other entries are still emitted in order, the run does not
\* fail before the delivery, and the delivered document is the whole document.
C7_ReadFailureInline ==
    /\ pc = "failed" => (failCause \in {"readdir", "write"} /\
                         (failCause = "readdir" => reads = << >>))
    /\ Assembling =>
          /\ Len(reads) = idx - 1
          /\ output = Flatten([i \in 1..Len(reads) |-> BlockOf(i)])
          /\ \A i \in 1..Len(reads) :
                ~reads[i].ok => IsErrorBlock(ErrorBlock(mergedItems[i].abs))
    /\ pc \in {"deliver", "done"} => Len(reads) = Len(mergedItems)
    /\ pc = "done" =>
          /\ Len(FilesThisRun) + Len(ClipThisRun) = 1
          /\ \A i \in 1..Len(FilesThisRun) : FilesThisRun[i].data = output
          /\ \A i \in 1..Len(ClipThisRun) : ClipThisRun[i].data = output

\* a delivered document whose first entry could not be read and whose second
\* entry was read
C7_Witness ==
    /\ pc = "done"
    /\ Len(reads) = 2
    /\ ~reads[1].ok
    /\ reads[2].ok

\* C8 as stated: when the destination is the clipboard and the clipboard
\* write fails, the run does not fail: the document is written to the
\* designated file and the fallback is reported; when the clipboard write
\* succeeds no file is written.
C8_FallbackNeverFails ==
    UseClipboard(opts) =>
        /\ ~(pc = "failed" /\ failCause \in {"clipboard", "write"})
        /\ pc = "done" =>
              IF ClipThisRun # << >> THEN FilesThisRun = << >>
              ELSE /\ FilesThisRun = << [path |-> ResultPath(opts), data |-> output, run |-> run] >>
                   /\ fallbackLogged

\* C8 as amended: when the destination is the clipboard and the clipboard
\* write fails, the clipboard error does not end the run: the run goes on to
\* write the document to the designated file (the resolved output argument
\* when one was given); if that write succeeds the run completes with the
\* whole document in that file and the fallback reported, and if that write
\* fails too the run fails with the write error.  When the clipboard write
\* succeeds no file is written.
C8_FallbackToFile ==
    UseClipboard(opts) =>
        /\ ~(pc = "failed" /\ failCause = "clipboard")
        /\ (pc = "failed" /\ failCause = "write") =>
              (ClipThisRun = << >> /\ FilesThisRun = << >> /\ ~fallbackLogged)
        /\ pc = "done" =>
              IF ClipThisRun # << >>
              THEN /\ ClipThisRun = << [data |-> output, run |-> run] >>
                   /\ FilesThisRun = << >>
                   /\ ~fallbackLogged
              ELSE /\ FilesThisRun = << [path |-> ResultPath(opts), data |-> output, run |-> run] >>
                   /\ opts.output.kind # "none" => ResultPath(opts) = opts.output
                   /\ fallbackLogged

\* a run for the clipboard that ended with a non-empty document in the
\* designated file and the fallback reported
C8_Witness ==
    /\ UseClipboard(opts)
    /\ pc = "done"
    /\ fallbackLogged
    /\ output # << >>
    /\ FilesThisRun # << >>

\* C9: with -c the output argument is ignored: no run with -c writes
\* anything to the path given as the output argument.
C9_OutputArgIgnored ==
    (opts.clipboard /\ opts.output.kind # "none") =>
        \A i \in 1..Len(files) : files[i].path # opts.output

\* C10: two runs with the same options on an unchanged directory produce the
\* same document.
C10_Idempotent ==
    (/\ run = 2
     /\ pc \in {"deliver", "done"}
     /\ prevDoc.has
     /\ prevDoc.fs0 = fs0
     /\ nEnv = 0) => output = prevDoc.doc

\* a second run on the unchanged folder that delivered a document of at
\* least two blocks, one of them of a file in a directory
C10_Witness ==
    /\ run = 2
    /\ pc = "done"
    /\ prevDoc.has
    /\ prevDoc.fs0 = fs0
    /\ nEnv = 0
    /\ Len(mergedItems) >= 2
    /\ Len(listed) >= 2
    /\ output = prevDoc.doc

\* the directories of the folder, as paths below the base folder
RealDirs(f) == {p \in Paths : f[p].kind = "dir"}

\* the directories below the base folder that this run has listed
ListedBelow == {RelSegments(listed[i]) : i \in 1..Len(listed)} \ {<< >>}

\* the directory, or one above it, is matched by the pattern set
MatchedAtOrAbove(rules, p) ==
    \E d \in Ancestors(p) \cup {p} : IsMatched(rules, JoinSlash(d), TRUE)

\* C11: in deny mode the walk never lists a directory whose relative path
\* with a trailing slash matches the deny set and lists every other
\* directory it reaches; in allow mode it lists every directory.
C11_DenyPrunesMatchedDirs ==
    /\ ~allowIg.present =>
          \A p \in ListedBelow : ~IsMatched(ig, JoinSlash(p), TRUE)
    /\ WalkedUnchanged =>
          ListedBelow =
             IF allowIg.present THEN RealDirs(fs0)
             ELSE {p \in RealDirs(fs0) : ~MatchedAtOrAbove(ig, p)}

\* what the walk does: in deny mode as in allow mode it lists every directory
\* it reaches, whatever the pattern sets answer; a directory whose relative
\* path with a trailing slash matches the deny set is listed too, and the
\* files beneath it are left out by the test made on each file.
WalkListsEveryDirectory ==
    /\ ListedBelow \subseteq RealDirs(fs0)
    /\ WalkedUnchanged =>
          /\ ListedBelow = RealDirs(fs0)
          /\ Len(listed) = Cardinality(RealDirs(fs0)) + 1
          /\ ~allowIg.present =>
                \A p \in SelectedPaths : ~BeneathMatchedDir(ig, p)

\* a deny-mode walk that listed a directory the deny set matches and kept
\* none of the text files in it
ListedMatchedDirectory ==
    /\ WalkedUnchanged
    /\ ~allowIg.present
    /\ \E d \in ListedBelow :
          /\ IsMatched(ig, JoinSlash(d), TRUE)
          /\ \E p \in TextFiles(fs0) : Parent(p) = d /\ Len(p) = 2 /\ p \notin SelectedPaths

\* what a run that failed to list a directory leaves behind, and when a run
\* may have written its sink
NothingDeliveredOnListingFailure ==
    /\ (pc = "failed" /\ failCause = "readdir") =>
          /\ ClipThisRun = << >>
          /\ FilesThisRun = << >>
          /\ output = << >>
          /\ reads = << >>
    /\ pc \in {"assemble", "deliver", "done"} =>
          Len(listed) = Cardinality(RealDirs(fs0)) + 1
    /\ Len(ClipThisRun) + Len(FilesThisRun) <= 1
    /\ Len(ClipThisRun) + Len(FilesThisRun) = 1 => pc = "done"

\* the steps that write the clipboard or a file are steps of the delivery,
\* taken with the walk returned and every entry assembled; the step that
\* fails on a listing writes nothing
SinkWrittenOnlyByDelivery ==
    /\ (clip' # clip \/ files' # files) =>
          /\ pc = "deliver" /\ pc' = "done"
          /\ stack = << >>
          /\ Len(reads) = Len(mergedItems)
          /\ Len(clip') + Len(files') = Len(clip) + Len(files) + 1
    /\ fs' # fs => (pc = "deliver" /\ pc' = "done") \/ nEnv' = nEnv + 1
    /\ (pc' = "failed" /\ failCause' = "readdir") =>
          (fs' = fs /\ clip' = clip /\ files' = files)

\* C12: a run in which a directory cannot be listed fails at that point and
\* delivers nothing, neither to the clipboard nor to a file, and leaves an
\* existing output file as it was; the sink is written at most once per run,
\* and only after the whole walk and the whole assembly.
C12_ListingFailureAtomic ==
    []NothingDeliveredOnListingFailure /\ [][SinkWrittenOnlyByDelivery]_vars

\* a run whose output file exists in the folder and that failed on listing a
\* directory after it had selected a file
C12_Witness ==
    /\ pc = "failed"
    /\ failCause = "readdir"
    /\ opts.output.kind = "tree"
    /\ fs[opts.output.path].kind = "file"
    /\ listed # << >>
    /\ mergedItems # << >>

\* no directory is listed twice by one run
ListedOnce == \A i, j \in 1..Len(listed) : i # j => listed[i] # listed[j]

\* what the walk records and lists is made of regular files and directories
LinksNeverFollowed ==
    /\ \A i \in 1..Len(mergedItems) : fs0[RelSegments(mergedItems[i].abs)].kind = "file"
    /\ \A i \in 1..Len(listed) :
          listed[i] = BaseFolder \/ fs0[RelSegments(listed[i])].kind = "dir"
    /\ ListedOnce
    /\ pc \in {"assemble", "deliver", "done"} =>
          /\ ListedBelow = RealDirs(fs0)
          /\ Len(listed) = Cardinality(RealDirs(fs0)) + 1

\* C13: an entry that is neither a regular file nor a directory (a symbolic
\* link, also one to a directory or to an ancestor) is never recorded and
\* never entered; on any folder, with cycles of links or not, the walk lists
\* each directory exactly once and comes to an end.
C13_LinksSkippedWalkEnds ==
    []LinksNeverFollowed /\ ((pc = "start") ~> (pc \notin {"start", "walk"}))

\* a walk that returned on a folder with a link to the base folder and a link
\* to a directory that holds an entry
C13_Witness ==
    /\ pc \in {"assemble", "deliver", "done"}
    /\ \E p, q \in Paths :
          /\ fs0[p] = LinkTo(<< >>)
          /\ fs0[q].kind = "link"
          /\ fs0[q].content \in RealDirs(fs0)
    /\ Len(listed) >= 2

\* the first run wrote its document to the output file, which lies in the
\* source folder, and nothing else has touched the folder since
WroteIntoFolder ==
    /\ run = 2
    /\ prevDoc.has
    /\ nEnv = 0
    /\ opts.output.kind = "tree"
    /\ \E i \in 1..Len(files) :
          files[i] = [path |-> opts.output, data |-> prevDoc.doc, run |-> 1]

\* the output file is text and passes the pattern mode of the run
OutputFilePasses ==
    LET p == opts.output.path
    IN  /\ p \in TextFiles(fs0)
        /\ IF allowIg.present THEN IsMatched(allowIg.rules, JoinSlash(p), FALSE)
           ELSE ~IsMatched(ig, JoinSlash(p), FALSE) /\ ~BeneathMatchedDir(ig, p)

\* C14: when a run has written its document to a file in the source folder
\* and that file is text and passes the pattern mode, the next run with the
\* same options selects the file, embeds the previous document in its own,
\* and so produces a document that differs from the first.
C14_OutputFileReingested ==
    (WroteIntoFolder /\ OutputFilePasses /\ pc \in {"deliver", "done"}) =>
        /\ \E i \in 1..Len(mergedItems) :
              /\ mergedItems[i].abs = BaseFolder \o opts.output.path
              /\ reads[i] = [ok |-> TRUE, content |-> prevDoc.doc]
              /\ BlockOf(i) = FileBlock(DisplayPath(BaseFolder \o opts.output.path), prevDoc.doc)
        /\ BlocksInListOrder
        /\ Len(output) > Len(prevDoc.doc)
        /\ output # prevDoc.doc

\* a second run that delivered a document holding the document of the first
\* run, which was not empty, beside the block of another file
C14_Witness ==
    /\ WroteIntoFolder
    /\ OutputFilePasses
    /\ pc = "done"
    /\ prevDoc.doc # << >>
    /\ Len(mergedItems) = 2
    /\ output # prevDoc.doc

====
